---- MODULE Spec2Model ----
(***************************************************************************)
(* Model of the text recognition worker.                                   *)
(*                                                                         *)
(*   - region_of_interest.rs : RegionOfInterest::get_coordinates           *)
(*   - main.rs               : the streamed worker (TextRecognitionEvent)  *)
(*   - message.rs            : the batch job handler (process, apply_ocr)  *)
(*                                                                         *)
(* Three specifications share the variables: SpecRegion applies            *)
(* get_coordinates to every bounded descriptor, SpecStream runs jobs on    *)
(* one TextRecognitionEvent, SpecBatch runs process on one job.            *)
(***************************************************************************)
EXTENDS Integers, Sequences, FiniteSets, TLC

(***************************************************************************)
(* Bounds.                                                                 *)
(***************************************************************************)
\* largest value of a RegionOfInterest field
MaxCoord == 2
\* largest sample_rate a job asks for
MaxRate == 3
\* jobs one worker is given in its lifetime
MaxJobs == 2
\* frames the host presents in one streamed job
MaxFrames == 4
\* threads of the host that call process_frame
NumThreads == 2
\* iterations of the decode loop of one batch job
MaxPackets == 6
\* frames the filter graph hands back for one decoded frame
MaxGraphFrames == 2

(***************************************************************************)
(* Machine integers.  The model checker's integers are 32 bits wide and    *)
(* signed, so an unsigned value of 2^31 or more is written in two's        *)
(* complement: the integer n < 0 stands for the u32 value 2^32 + n (for    *)
(* the usize value 2^64 + n).  Every value the bounds generate directly is *)
(* small and stands for itself; a negative integer only ever arises from a *)
(* wrapped subtraction or from a cast of a negative i64.                   *)
(***************************************************************************)
\* (mutant) the operands of the subtraction exchanged
wrapping_sub_swapped(a, b) == b - a

\* a - b on u32 in a build without overflow checks: for b > a the result is
\* the u32 value 2^32 - (b - a), written a - b
wrapping_sub(a, b) == a - b

(***************************************************************************)
(* Option<T>: None is the empty sequence, Some(v) the one-element one.     *)
(***************************************************************************)
None == << >>
Some(v) == << v >>
IsSome(o) == Len(o) = 1
IsNone(o) == Len(o) = 0
Option(S) == {None} \cup {Some(v) : v \in S}

VARIABLES
  \* ---- region_of_interest.rs
  roi,              \* the RegionOfInterest get_coordinates is applied to
  overflow_checks,  \* build profile: TRUE = arithmetic overflow panics
  roi_result        \* what get_coordinates(roi) produced, NotCalled before

roiVars == << roi, overflow_checks, roi_result >>

VARIABLES
  \* ---- main.rs: the fields of TextRecognitionEvent
  language,
  response_sender,
  frame_count,
  sample_rate,
  \* ---- main.rs: the host's side of the MessageEvent callbacks
  worker_pc,        \* "idle", "running" (between init_process and
                    \* ending_process) or "panicked"
  jobs,             \* init_process calls so far
  parameters_given, \* the WorkerParameters of the last init_process
  source_streams,   \* the stream types of the FormatContext it was given
  init_returned,    \* what the last init_process returned
  presented,        \* process_frame calls of the current job
  call,             \* per thread: its process_frame call in progress
  output,           \* the ProcessResults of the current job, in the order
                    \* they were returned or sent
  sequence_numbers, \* every value fetch_add returned, oldest first
  sampled,          \* per frame of the current job, in fetch_add order:
                    \* its position in the job, its number, and its outcome
  ocr_view          \* the last ocr_from_frame call of the current job

streamVars == << language, response_sender, frame_count, sample_rate,
                 worker_pc, jobs, parameters_given, source_streams,
                 init_returned, presented, call, output, sequence_numbers,
                 sampled, ocr_view >>

VARIABLES
  \* ---- message.rs
  job,              \* the parameters of the Job given to process
  video,            \* the source: openable or not, and its frame size
  batch_pc,         \* "received", "decoding" (in the loop of apply_ocr),
                    \* "returned" or "panicked"
  job_result,       \* what process returned: status and message
  graph,            \* the filter graph apply_ocr built
  coordinates,      \* apply_ocr's argument of that name
  usize_sample_rate,\* apply_ocr's sample_rate argument
  text_analysis,    \* apply_ocr's Vec<FrameAnalysis>
  loop_frame_count, \* apply_ocr's local frame_count
  packets,          \* iterations of the decode loop so far
  ocr_calls,        \* frame_count of every frame handed to OCR, oldest first
  destination,      \* the destination file: its content once written
  to_file_calls,    \* calls of to_file so far
  decode_failed,    \* video_decoder.decode returned an error on a packet
  filter_failures,  \* packets on which graph.process was not Ok
  graph_frames,     \* frames graph.process handed back so far
  loop_ocr_view     \* the last ocr_from_frame call of apply_ocr

batchVars == << job, video, batch_pc, job_result, graph, coordinates,
                usize_sample_rate, text_analysis, loop_frame_count, packets,
                ocr_calls, destination, to_file_calls, decode_failed,
                filter_failures, graph_frames, loop_ocr_view >>

vars == << roiVars, streamVars, batchVars >>

(***************************************************************************)
(* region_of_interest.rs                                                   *)
(***************************************************************************)
RegionOfInterest ==
  [top : Option(0..MaxCoord), left : Option(0..MaxCoord),
   right : Option(0..MaxCoord), bottom : Option(0..MaxCoord),
   width : Option(0..MaxCoord), height : Option(0..MaxCoord)]

\* Result<Coordinates, String>, or the panic of an overflowing subtraction
Ok(t, l, w, h) == [kind |-> "Ok", top |-> t, left |-> l, width |-> w, height |-> h]
Err == [kind |-> "Err", top |-> 0, left |-> 0, width |-> 0, height |-> 0]
Panic == [kind |-> "Panic", top |-> 0, left |-> 0, width |-> 0, height |-> 0]
NotCalled == [kind |-> "NotCalled", top |-> 0, left |-> 0, width |-> 0, height |-> 0]

\* the fields of a descriptor that are Some
Fields == {"top", "left", "right", "bottom", "width", "height"}
Present(r) == {f \in Fields : IsSome(r[f])}

\* a match arm's Ok(Coordinates {..}): `a - b` panics when it overflows in a
\* build with overflow checks and wraps otherwise
Arm(checks, overflows, t, l, w, h) ==
  IF checks /\ overflows THEN Panic ELSE Ok(t, l, w, h)

\* the field sets of the seven match arms, in the order of the source
ArmFields ==
  << {"top", "left", "right", "bottom"},
     {"top", "left", "width", "height"},
     {"top", "left", "bottom", "width"},
     {"top", "left", "right", "height"},
     {"left", "bottom", "width", "height"},
     {"top", "right", "width", "height"},
     {"right", "bottom", "width", "height"} >>

\* (mutant) patterns that leave out their `None` fields: the first arm whose
\* Some fields are all there
MatchedArm_loose(self) ==
  IF \E i \in 1..Len(ArmFields) : ArmFields[i] \subseteq Present(self)
  THEN CHOOSE i \in 1..Len(ArmFields) :
         /\ ArmFields[i] \subseteq Present(self)
         /\ \A j \in 1..(i - 1) : ~(ArmFields[j] \subseteq Present(self))
  ELSE 0

\* the arm whose pattern matches: a pattern names every field, Some or None,
\* so it matches exactly the descriptors with its field set; 0 is `_`
MatchedArm(self) ==
  IF \E i \in 1..Len(ArmFields) : ArmFields[i] = Present(self)
  THEN CHOOSE i \in 1..Len(ArmFields) : ArmFields[i] = Present(self)
  ELSE 0

get_coordinates(self, checks) ==
  LET top == self.top  left == self.left  right == self.right
      bottom == self.bottom  width == self.width  height == self.height
      arm == MatchedArm(self)
  IN CASE arm = 1 ->
            Arm(checks, right[1] < left[1] \/ bottom[1] < top[1],
                top[1], left[1],
                wrapping_sub(right[1], left[1]), wrapping_sub(bottom[1], top[1]))
       [] arm = 2 ->
            Arm(checks, FALSE, top[1], left[1], width[1], height[1])
       [] arm = 3 ->
            Arm(checks, bottom[1] < top[1],
                top[1], left[1], width[1], wrapping_sub(bottom[1], top[1]))
       [] arm = 4 ->
            Arm(checks, right[1] < left[1],
                top[1], left[1], wrapping_sub(right[1], left[1]), height[1])
       [] arm = 5 ->
            Arm(checks, bottom[1] < height[1],
                wrapping_sub(bottom[1], height[1]), left[1], width[1], height[1])
       [] arm = 6 ->
            Arm(checks, right[1] < width[1],
                top[1], wrapping_sub(right[1], width[1]), width[1], height[1])
       [] arm = 7 ->
            Arm(checks, bottom[1] < height[1] \/ right[1] < width[1],
                wrapping_sub(bottom[1], height[1]),
                wrapping_sub(right[1], width[1]), width[1], height[1])
       [] OTHER -> Err

(***************************************************************************)
(* The buffer handed to tesseract::ocr_from_frame (main.rs and message.rs) *)
(***************************************************************************)
\* av_get_bits_per_pixel of the descriptor of a pixel format
av_get_bits_per_pixel(format) ==
  CASE format = "rgb24" -> 24
    [] format = "rgba" -> 32
    [] format = "gray8" -> 8
    [] OTHER -> 12

\* what the AVFrame of a filtered frame reports
Frame(width, height, linesize, format) ==
  [width |-> width, height |-> height, linesize |-> linesize, format |-> format]

NoFrame == Frame(0, 0, 0, "")

\* (mutant) the length of the buffer taken from the width, without the
\* padding of the rows
BufferView_unpadded(frame, bytes_per_pixel) ==
  [data_len |-> frame.width * bytes_per_pixel * frame.height,
   width |-> frame.width, height |-> frame.height,
   bytes_per_pixel |-> bytes_per_pixel, linesize |-> frame.linesize]

\* the arguments of ocr_from_frame: `data` of buffer_size = linesize * height
\* bytes, then width, height, bytes_per_pixel and linesize
BufferView(frame, bytes_per_pixel) ==
  [data_len |-> frame.linesize * frame.height,
   width |-> frame.width, height |-> frame.height,
   bytes_per_pixel |-> bytes_per_pixel, linesize |-> frame.linesize]

\* an OCR call: the frame it was made for and the arguments it was given
OcrCall(frame, view) == [frame |-> frame, view |-> view]

NoOcrCall == OcrCall(NoFrame, BufferView(NoFrame, 0))

(***************************************************************************)
(* main.rs: TextRecognitionEvent                                           *)
(***************************************************************************)
Threads == 1..NumThreads

\* a region a job may ask for (the descriptor is handed to the crop stage
\* as it is)
JobRegion ==
  [top |-> Some(0), left |-> Some(0), right |-> None, bottom |-> None,
   width |-> Some(2), height |-> Some(1)]

\* the fields of WorkerParameters that init_process reads
WorkerParameters ==
  [language : Option({"fra"}),
   region_of_interest : Option({JobRegion}),
   sample_rate : Option(0..MaxRate),
   width : Option({2}),
   height : Option({1})]

\* the stream types of a FormatContext, by stream index from 0
FormatContexts == { << "audio" >>, << "video" >>, << "audio", "video" >> }

\* (mutant) an increment that is lost
fetch_add_lost(c) == c

\* AtomicU32::fetch_add(1): the new value of the counter (it wraps)
fetch_add(c) == IF c = 2147483647 THEN -2147483647 - 1 ELSE c + 1

\* ProcessResult
ProcessEmpty == [kind |-> "empty", pts |-> 0, text |-> ""]
ProcessJson(pts, text) == [kind |-> "json", pts |-> pts, text |-> text]
EndOfProcess == [kind |-> "end_of_process", pts |-> 0, text |-> ""]

\* the frames process_frame is given: they leave the rgb24 format stage,
\* 64 by 100 pixels, with rows of 192 bytes or rows padded to 256
StreamFrames ==
  { Frame(64, 100, 192, "rgb24"), Frame(64, 100, 256, "rgb24") }

\* what tesseract::ocr_from_frame returns in main.rs: Ok(text) or Err
OcrResults == { [ok |-> TRUE, text |-> "text"], [ok |-> FALSE, text |-> ""] }

NoCall == [pc |-> "idle", frame_count |-> 0, pts |-> 0]

\* the Vec<VideoFilter> init_process builds
Scaling(width, height) ==
  IF IsNone(width) /\ IsNone(height) THEN None
  ELSE Some([width |-> width, height |-> height])

\* (mutant) the scale stage pushed before the crop stage
VideoFilters_resize_first(parameters) ==
  LET scaling == Scaling(parameters.width, parameters.height)
      crop == IF IsSome(parameters.region_of_interest)
              THEN << [filter |-> "Crop", region |-> parameters.region_of_interest[1],
                       scaling |-> None, pixel_formats |-> ""] >>
              ELSE << >>
      resize == IF IsSome(scaling)
                THEN << [filter |-> "Resize", region |-> None,
                         scaling |-> scaling, pixel_formats |-> ""] >>
                ELSE << >>
      format == << [filter |-> "Format", region |-> None,
                    scaling |-> None, pixel_formats |-> "rgb24"] >>
  IN resize \o crop \o format

VideoFilters(parameters) ==
  LET scaling == Scaling(parameters.width, parameters.height)
      crop == IF IsSome(parameters.region_of_interest)
              THEN << [filter |-> "Crop", region |-> parameters.region_of_interest[1],
                       scaling |-> None, pixel_formats |-> ""] >>
              ELSE << >>
      resize == IF IsSome(scaling)
                THEN << [filter |-> "Resize", region |-> None,
                         scaling |-> scaling, pixel_formats |-> ""] >>
                ELSE << >>
      format == << [filter |-> "Format", region |-> None,
                    scaling |-> None, pixel_formats |-> "rgb24"] >>
  IN crop \o resize \o format

\* (mutant) stream 0 is taken when the source has no video stream
FirstVideoStream_or_first(format_context) ==
  IF \E i \in 1..Len(format_context) : format_context[i] = "video"
  THEN (CHOOSE i \in 1..Len(format_context) :
          /\ format_context[i] = "video"
          /\ \A j \in 1..(i - 1) : format_context[j] # "video") - 1
  ELSE 0

\* the index of the first video stream, counted from 0, or -1
FirstVideoStream(format_context) ==
  IF \E i \in 1..Len(format_context) : format_context[i] = "video"
  THEN (CHOOSE i \in 1..Len(format_context) :
          /\ format_context[i] = "video"
          /\ \A j \in 1..(i - 1) : format_context[j] # "video") - 1
  ELSE -1

InitOk(index, filters) ==
  [kind |-> "Ok", stream_index |-> index, video_filters |-> filters]
InitErr == [kind |-> "Err", stream_index |-> 0, video_filters |-> << >>]
InitNone == [kind |-> "None", stream_index |-> 0, video_filters |-> << >>]

InitStream ==
  /\ language = ""
  /\ response_sender = None
  /\ frame_count = 0
  /\ sample_rate = None
  /\ worker_pc = "idle"
  /\ jobs = 0
  /\ parameters_given = None
  /\ source_streams = << >>
  /\ init_returned = InitNone
  /\ presented = 0
  /\ call = [t \in Threads |-> NoCall]
  /\ output = << >>
  /\ sequence_numbers = << >>
  /\ sampled = << >>
  /\ ocr_view = NoOcrCall

\* init_process: the host starts a job with its own response channel
init_process(parameters, format_context) ==
  /\ worker_pc = "idle"
  /\ jobs < MaxJobs
  /\ jobs' = jobs + 1
  /\ parameters_given' = Some(parameters)
  /\ source_streams' = format_context
  /\ language' = IF IsSome(parameters.language) THEN parameters.language[1] ELSE "eng"
  /\ response_sender' = Some(jobs + 1)
  /\ sample_rate' = parameters.sample_rate
  /\ output' = << >>
  /\ presented' = 0
  /\ sampled' = << >>
  /\ ocr_view' = NoOcrCall
  /\ IF FirstVideoStream(format_context) >= 0
     THEN /\ init_returned' = InitOk(FirstVideoStream(format_context),
                                     VideoFilters(parameters))
          /\ worker_pc' = "running"
     ELSE /\ init_returned' = InitErr
          /\ worker_pc' = "idle"
  /\ UNCHANGED << frame_count, call, sequence_numbers >>
  /\ UNCHANGED << roiVars, batchVars >>

\* process_frame, line 122: the thread takes its number from the counter
process_frame_count(t) ==
  /\ worker_pc = "running"
  /\ call[t].pc = "idle"
  /\ presented < MaxFrames
  /\ presented' = presented + 1
  /\ call' = [call EXCEPT ![t] = [pc |-> "counted", frame_count |-> frame_count,
                                  pts |-> presented]]
  /\ frame_count' = fetch_add(frame_count)
  /\ sequence_numbers' = Append(sequence_numbers, frame_count)
  /\ sampled' = Append(sampled, [position |-> presented, n |-> frame_count,
                                  outcome |-> "pending"])
  /\ UNCHANGED << language, response_sender, sample_rate, worker_pc, jobs,
                  parameters_given, source_streams, init_returned, output,
                  ocr_view >>
  /\ UNCHANGED << roiVars, batchVars >>

SetOutcome(log, position, outcome) ==
  [i \in 1..Len(log) |->
     IF log[i].position = position THEN [log[i] EXCEPT !.outcome = outcome]
     ELSE log[i]]

\* process_frame, lines 123-169: the sampling decision, the OCR call and
\* the returned ProcessResult
process_frame_return(t) ==
  /\ worker_pc = "running"
  /\ call[t].pc = "counted"
  /\ call' = [call EXCEPT ![t] = NoCall]
  /\ LET n == call[t].frame_count
         pos == call[t].pts
     IN IF IsSome(sample_rate) /\ sample_rate[1] = 0
        THEN \* frame_count % 0 panics
             /\ worker_pc' = "panicked"
             /\ sampled' = SetOutcome(sampled, pos, "rem_by_zero")
             /\ UNCHANGED << output, ocr_view >>
        ELSE IF IsSome(sample_rate) /\ n % sample_rate[1] # 0
        THEN /\ output' = Append(output, ProcessEmpty)
             /\ sampled' = SetOutcome(sampled, pos, "skipped")
             /\ UNCHANGED << worker_pc, ocr_view >>
        ELSE \* lines 130-158: the frame's geometry is read and OCR is called
             \E frame \in StreamFrames, r \in OcrResults :
               /\ ocr_view' = OcrCall(frame,
                    BufferView(frame, av_get_bits_per_pixel(frame.format) \div 8))
               /\ IF r.ok
                  THEN /\ output' = Append(output, ProcessJson(call[t].pts, r.text))
                       /\ sampled' = SetOutcome(sampled, pos, "ocr")
                       /\ UNCHANGED worker_pc
                  ELSE \* .unwrap() of the Err panics
                       /\ worker_pc' = "panicked"
                       /\ sampled' = SetOutcome(sampled, pos, "ocr_failed")
                       /\ UNCHANGED output
  /\ UNCHANGED << language, response_sender, frame_count, sample_rate, jobs,
                  parameters_given, source_streams, init_returned, presented, sequence_numbers >>
  /\ UNCHANGED << roiVars, batchVars >>

\* (mutant) the test of response_sender inverted: nothing is sent
ending_process_silent ==
  /\ worker_pc = "running"
  /\ \A t \in Threads : call[t].pc = "idle"
  /\ output' = IF IsNone(response_sender) THEN Append(output, EndOfProcess)
               ELSE output
  /\ worker_pc' = "idle"
  /\ UNCHANGED << language, response_sender, frame_count, sample_rate, jobs,
                  parameters_given, source_streams, init_returned, presented, call,
                  sequence_numbers, sampled, ocr_view >>
  /\ UNCHANGED << roiVars, batchVars >>

\* ending_process: the host calls it once no process_frame call is running
ending_process ==
  /\ worker_pc = "running"
  /\ \A t \in Threads : call[t].pc = "idle"
  /\ output' = IF IsSome(response_sender) THEN Append(output, EndOfProcess)
               ELSE output
  /\ worker_pc' = "idle"
  /\ UNCHANGED << language, response_sender, frame_count, sample_rate, jobs,
                  parameters_given, source_streams, init_returned, presented, call,
                  sequence_numbers, sampled, ocr_view >>
  /\ UNCHANGED << roiVars, batchVars >>

NextStream ==
  \/ \E parameters \in WorkerParameters, format_context \in FormatContexts :
       init_process(parameters, format_context)
  \/ \E t \in Threads : process_frame_count(t)
  \/ \E t \in Threads : process_frame_return(t)
  \/ ending_process

(***************************************************************************)
(* message.rs: process, apply_ocr, to_file                                 *)
(***************************************************************************)
SOURCE_PATH_PARAMETER == "source_path"
LANGUAGE_PARAMETER == "language"
DESTINATION_PATH_PARAMETER == "destination_path"
SAMPLE_RATE_PARAMETER == "sample_rate"

\* a Job: each parameter present with a value, or missing
Jobs ==
  [source_path : Option({"in.mp4"}),
   language : Option({"eng"}),
   destination_path : Option({"out.json"}),
   sample_rate : Option(-1..MaxRate)]

\* the source file: which step of building the pipeline fails on it, if any,
\* and the size of its frames
Videos ==
  [construction : {"ok", "open_input", "video_decoder", "filter_graph"},
   frame_width : {2, 3},
   frame_height : {1, 2},
   linesize : {9, 16}]

\* `sample_rate as usize` of an i64: a negative rate becomes 2^64 + rate,
\* which is written as the same negative integer
as_usize(n) == n

\* a % b on usize for a small a: b = 0 panics (the caller checks), a huge b
\* leaves a
usize_rem(a, b) == IF b < 0 THEN a ELSE a % b

JobResult(status, message) == [status |-> status, message |-> message]

\* (mutant) language is not asked for
FirstMissing_without_language(j) ==
  IF IsNone(j.source_path) THEN SOURCE_PATH_PARAMETER
  ELSE IF IsNone(j.destination_path) THEN DESTINATION_PATH_PARAMETER
  ELSE ""

\* get_required_string_parameter_value: the first of the three required
\* parameters that is missing, or "" when all are there
FirstMissing(j) ==
  IF IsNone(j.source_path) THEN SOURCE_PATH_PARAMETER
  ELSE IF IsNone(j.language) THEN LANGUAGE_PARAMETER
  ELSE IF IsNone(j.destination_path) THEN DESTINATION_PATH_PARAMETER
  ELSE ""

\* the filter graph of apply_ocr: its filters and the links between pads
FormatFilter ==
  [name |-> "format", label |-> "format_filter",
   parameters |-> [pix_fmts |-> "rgb24"]]

CropFilter(c) ==
  [name |-> "crop", label |-> "crop_filter",
   parameters |-> [out_w |-> c[2] - c[1], out_h |-> c[4] - c[3],
                   x |-> c[3], y |-> c[1]]]

BuildGraph(c) ==
  IF IsSome(c)
  THEN [crop |-> Some(CropFilter(c[1])), format |-> FormatFilter,
        links |-> << << "video_input", "crop_filter" >>,
                     << "crop_filter", "format_filter" >>,
                     << "format_filter", "video_output" >> >>]
  ELSE [crop |-> None, format |-> FormatFilter,
        links |-> << << "video_input", "format_filter" >>,
                     << "format_filter", "video_output" >> >>]

NoGraph == [crop |-> None, format |-> FormatFilter, links |-> << >>]

\* (mutant) the entry records the counter after its increment
FrameAnalysis_late(coords, n, text) ==
  [coordinates |-> coords, confidence |-> "NA", frame |-> n + 1, text |-> text]

FrameAnalysis(coords, n, text) ==
  [coordinates |-> coords, confidence |-> "NA", frame |-> n, text |-> text]

\* a frame the graph hands back for the video v: rgb24, of the size the crop
\* stage leaves, in rows of the source's stride
FilteredFrame(coords, v) ==
  IF IsSome(coords)
  THEN Frame(CropFilter(coords[1]).parameters.out_w,
             CropFilter(coords[1]).parameters.out_h, v.linesize, "rgb24")
  ELSE Frame(v.frame_width, v.frame_height, v.linesize, "rgb24")

\* the `for video_frame in &video_frames` loop over k frames, from the state
\* st = [frame_count, text_analysis, ocr_calls, panicked, view]
RECURSIVE ForVideoFrames(_, _, _, _, _)
ForVideoFrames(k, st, rate, coords, v) ==
  IF k = 0 \/ st.panicked THEN st
  ELSE IF rate = 0
  THEN [st EXCEPT !.panicked = TRUE]
  ELSE IF usize_rem(st.frame_count, rate) # 0
  THEN ForVideoFrames(k - 1, [st EXCEPT !.frame_count = @ + 1], rate, coords, v)
  ELSE LET c == IF IsSome(coords) THEN coords[1]
                ELSE << 0, v.frame_height, 0, v.frame_width >>
       IN ForVideoFrames(k - 1,
            [st EXCEPT !.text_analysis =
                         Append(@, FrameAnalysis(c, st.frame_count, "text")),
                       !.ocr_calls = Append(@, st.frame_count),
                       !.view = OcrCall(FilteredFrame(coords, v),
                                  BufferView(FilteredFrame(coords, v),
                                    av_get_bits_per_pixel("rgb24") \div 8)),
                       !.frame_count = @ + 1],
            rate, coords, v)

InitBatch ==
  /\ job \in Jobs
  /\ video \in Videos
  /\ batch_pc = "received"
  /\ job_result = JobResult("None", "")
  /\ graph = NoGraph
  /\ coordinates = None
  /\ usize_sample_rate = 1
  /\ text_analysis = << >>
  /\ loop_frame_count = 0
  /\ packets = 0
  /\ ocr_calls = << >>
  /\ destination = None
  /\ to_file_calls = 0
  /\ decode_failed = FALSE
  /\ filter_failures = 0
  /\ graph_frames = 0
  /\ loop_ocr_view = NoOcrCall

\* process up to the decode loop of apply_ocr: the required parameters, the
\* sample rate, the source, the decoder and the filter graph
process_start ==
  /\ batch_pc = "received"
  /\ IF FirstMissing(job) # ""
     THEN /\ batch_pc' = "returned"
          /\ job_result' = JobResult("Error", FirstMissing(job))
          /\ UNCHANGED << graph, coordinates, usize_sample_rate >>
     ELSE /\ usize_sample_rate' =
               as_usize(IF IsSome(job.sample_rate) THEN job.sample_rate[1] ELSE 1)
          /\ coordinates' = None
          /\ IF video.construction = "ok"
             THEN /\ graph' = BuildGraph(None)
                  /\ batch_pc' = "decoding"
                  /\ UNCHANGED job_result
             ELSE /\ batch_pc' = "returned"
                  /\ job_result' = JobResult("Error", video.construction)
                  /\ UNCHANGED graph
  /\ UNCHANGED << job, video, text_analysis, loop_frame_count, packets,
                  ocr_calls, destination, to_file_calls, decode_failed,
                  filter_failures, graph_frames, loop_ocr_view >>
  /\ UNCHANGED << roiVars, streamVars >>

\* the rectangles apply_ocr can be given: (h1, h2, w1, w2) with h1 < h2 and
\* w1 < w2, the order of the default (0, frame_height, 0, frame_width)
CropCoordinates ==
  { c \in (0..MaxCoord) \X (0..MaxCoord) \X (0..MaxCoord) \X (0..MaxCoord) :
      c[1] < c[2] /\ c[3] < c[4] }

\* apply_ocr called with Some(c) as its coordinates, up to its decode loop;
\* its other arguments are those process takes from the job
apply_ocr_region(c) ==
  /\ batch_pc = "received"
  /\ FirstMissing(job) = ""
  /\ usize_sample_rate' =
       as_usize(IF IsSome(job.sample_rate) THEN job.sample_rate[1] ELSE 1)
  /\ coordinates' = Some(c)
  /\ IF video.construction = "ok"
     THEN /\ graph' = BuildGraph(Some(c))
          /\ batch_pc' = "decoding"
          /\ UNCHANGED job_result
     ELSE /\ batch_pc' = "returned"
          /\ job_result' = JobResult("Err", video.construction)
          /\ UNCHANGED graph
  /\ UNCHANGED << job, video, text_analysis, loop_frame_count, packets,
                  ocr_calls, destination, to_file_calls, decode_failed,
                  filter_failures, graph_frames, loop_ocr_view >>
  /\ UNCHANGED << roiVars, streamVars >>

\* apply_ocr finds no more packet and returns the serialised report
apply_ocr_return ==
  /\ batch_pc = "decoding"
  /\ IsSome(coordinates)
  /\ batch_pc' = "returned"
  /\ job_result' = JobResult("Ok", "")
  /\ UNCHANGED << job, video, graph, coordinates, usize_sample_rate,
                  text_analysis, loop_frame_count, packets, ocr_calls,
                  destination, to_file_calls, decode_failed, filter_failures,
                  graph_frames, loop_ocr_view >>
  /\ UNCHANGED << roiVars, streamVars >>

\* a loop iteration that reads a packet of another stream: continue
loop_other_stream ==
  /\ batch_pc = "decoding"
  /\ packets < MaxPackets
  /\ packets' = packets + 1
  /\ UNCHANGED << job, video, batch_pc, job_result, graph, coordinates,
                  usize_sample_rate, text_analysis, loop_frame_count,
                  ocr_calls, destination, to_file_calls, decode_failed,
                  filter_failures, graph_frames, loop_ocr_view >>
  /\ UNCHANGED << roiVars, streamVars >>

\* (mutant) a packet that fails to decode is skipped, as one that fails in
\* the filter graph is
loop_video_packet_skip_undecoded(decoded, filtered, k) ==
  /\ batch_pc = "decoding"
  /\ packets < MaxPackets
  /\ packets' = packets + 1
  /\ IF ~decoded
     THEN /\ decode_failed' = TRUE
          /\ UNCHANGED << batch_pc, job_result, text_analysis, loop_frame_count, ocr_calls,
                          filter_failures, graph_frames, loop_ocr_view >>
     ELSE IF ~filtered
     THEN \* graph.process is not Ok: nothing happens
          /\ filter_failures' = filter_failures + 1
          /\ UNCHANGED << batch_pc, job_result, text_analysis, loop_frame_count,
                          ocr_calls, decode_failed, graph_frames, loop_ocr_view >>
     ELSE LET st == ForVideoFrames(k,
                      [frame_count |-> loop_frame_count,
                       text_analysis |-> text_analysis,
                       ocr_calls |-> ocr_calls, panicked |-> FALSE,
                       view |-> loop_ocr_view],
                      usize_sample_rate, coordinates, video)
          IN /\ text_analysis' = st.text_analysis
             /\ loop_frame_count' = st.frame_count
             /\ ocr_calls' = st.ocr_calls
             /\ batch_pc' = IF st.panicked THEN "panicked" ELSE batch_pc
             /\ graph_frames' = graph_frames + k
             /\ loop_ocr_view' = st.view
             /\ UNCHANGED << job_result, decode_failed, filter_failures >>
  /\ UNCHANGED << job, video, graph, coordinates, usize_sample_rate, destination,
                  to_file_calls >>
  /\ UNCHANGED << roiVars, streamVars >>

\* (mutant) a frame that fails in the filter graph still takes a frame
\* number
loop_video_packet_count_unfiltered(decoded, filtered, k) ==
  /\ batch_pc = "decoding"
  /\ packets < MaxPackets
  /\ packets' = packets + 1
  /\ IF ~decoded
     THEN \* video_decoder.decode(&packet)? returns the error
          /\ batch_pc' = "returned"
          /\ job_result' = JobResult("Error", "decode")
          /\ decode_failed' = TRUE
          /\ UNCHANGED << text_analysis, loop_frame_count, ocr_calls,
                          filter_failures, graph_frames, loop_ocr_view >>
     ELSE IF ~filtered
     THEN \* graph.process is not Ok: nothing happens
          /\ filter_failures' = filter_failures + 1
          /\ loop_frame_count' = loop_frame_count + 1
          /\ UNCHANGED << batch_pc, job_result, text_analysis,
                          ocr_calls, decode_failed, graph_frames, loop_ocr_view >>
     ELSE LET st == ForVideoFrames(k,
                      [frame_count |-> loop_frame_count,
                       text_analysis |-> text_analysis,
                       ocr_calls |-> ocr_calls, panicked |-> FALSE,
                       view |-> loop_ocr_view],
                      usize_sample_rate, coordinates, video)
          IN /\ text_analysis' = st.text_analysis
             /\ loop_frame_count' = st.frame_count
             /\ ocr_calls' = st.ocr_calls
             /\ batch_pc' = IF st.panicked THEN "panicked" ELSE batch_pc
             /\ graph_frames' = graph_frames + k
             /\ loop_ocr_view' = st.view
             /\ UNCHANGED << job_result, decode_failed, filter_failures >>
  /\ UNCHANGED << job, video, graph, coordinates, usize_sample_rate, destination,
                  to_file_calls >>
  /\ UNCHANGED << roiVars, streamVars >>

\* a loop iteration that reads a packet of stream 0: decode, filter, and
\* sample and recognise the frames the graph hands back
loop_video_packet(decoded, filtered, k) ==
  /\ batch_pc = "decoding"
  /\ packets < MaxPackets
  /\ packets' = packets + 1
  /\ IF ~decoded
     THEN \* video_decoder.decode(&packet)? returns the error
          /\ batch_pc' = "returned"
          /\ job_result' = JobResult("Error", "decode")
          /\ decode_failed' = TRUE
          /\ UNCHANGED << text_analysis, loop_frame_count, ocr_calls,
                          filter_failures, graph_frames, loop_ocr_view >>
     ELSE IF ~filtered
     THEN \* graph.process is not Ok: nothing happens
          /\ filter_failures' = filter_failures + 1
          /\ UNCHANGED << batch_pc, job_result, text_analysis, loop_frame_count,
                          ocr_calls, decode_failed, graph_frames, loop_ocr_view >>
     ELSE LET st == ForVideoFrames(k,
                      [frame_count |-> loop_frame_count,
                       text_analysis |-> text_analysis,
                       ocr_calls |-> ocr_calls, panicked |-> FALSE,
                       view |-> loop_ocr_view],
                      usize_sample_rate, coordinates, video)
          IN /\ text_analysis' = st.text_analysis
             /\ loop_frame_count' = st.frame_count
             /\ ocr_calls' = st.ocr_calls
             /\ batch_pc' = IF st.panicked THEN "panicked" ELSE batch_pc
             /\ graph_frames' = graph_frames + k
             /\ loop_ocr_view' = st.view
             /\ UNCHANGED << job_result, decode_failed, filter_failures >>
  /\ UNCHANGED << job, video, graph, coordinates, usize_sample_rate, destination,
                  to_file_calls >>
  /\ UNCHANGED << roiVars, streamVars >>

\* (mutant) the result of to_file is dropped
loop_end_unchecked(io) ==
  /\ batch_pc = "decoding"
  /\ batch_pc' = "returned"
  /\ to_file_calls' = to_file_calls + 1
  /\ IF io = "ok"
     THEN /\ destination' = Some(text_analysis)
          /\ job_result' = JobResult("Completed", "")
     ELSE /\ destination' = IF io = "write" THEN Some(<< >>) ELSE None
          /\ job_result' = JobResult("Completed", "")
  /\ UNCHANGED << job, video, graph, coordinates, usize_sample_rate,
                  text_analysis, loop_frame_count, packets, ocr_calls,
                  decode_failed, filter_failures, graph_frames, loop_ocr_view >>
  /\ UNCHANGED << roiVars, streamVars >>

\* the loop iteration that finds no more packet, the serialisation of the
\* report, to_file and the status process returns
loop_end(io) ==
  /\ batch_pc = "decoding"
  /\ batch_pc' = "returned"
  /\ to_file_calls' = to_file_calls + 1
  /\ IF io = "ok"
     THEN /\ destination' = Some(text_analysis)
          /\ job_result' = JobResult("Completed", "")
     ELSE /\ destination' = IF io = "write" THEN Some(<< >>) ELSE None
          /\ job_result' = JobResult("Error", io)
  /\ UNCHANGED << job, video, graph, coordinates, usize_sample_rate,
                  text_analysis, loop_frame_count, packets, ocr_calls,
                  decode_failed, filter_failures, graph_frames, loop_ocr_view >>
  /\ UNCHANGED << roiVars, streamVars >>

NextBatch ==
  \/ process_start
  \/ loop_other_stream
  \/ \E decoded \in BOOLEAN, filtered \in BOOLEAN, k \in 0..MaxGraphFrames :
       loop_video_packet(decoded, filtered, k)
  \/ \E io \in {"ok", "create", "write"} : loop_end(io)

(***************************************************************************)
(* Specifications                                                          *)
(***************************************************************************)
\* the descriptor the region specification is not about
RegionIdle ==
  /\ roi = JobRegion
  /\ overflow_checks = FALSE
  /\ roi_result = NotCalled

\* the batch job the other specifications are not about
BatchIdle ==
  /\ job = [source_path |-> None, language |-> None, destination_path |-> None,
            sample_rate |-> None]
  /\ video = [construction |-> "ok", frame_width |-> 2, frame_height |-> 1,
              linesize |-> 9]
  /\ batch_pc = "received"
  /\ job_result = JobResult("None", "")
  /\ graph = NoGraph
  /\ coordinates = None
  /\ usize_sample_rate = 1
  /\ text_analysis = << >>
  /\ loop_frame_count = 0
  /\ packets = 0
  /\ ocr_calls = << >>
  /\ destination = None
  /\ to_file_calls = 0
  /\ decode_failed = FALSE
  /\ filter_failures = 0
  /\ graph_frames = 0
  /\ loop_ocr_view = NoOcrCall

RegionInputs ==
  /\ roi \in RegionOfInterest
  /\ overflow_checks \in BOOLEAN
  /\ roi_result = NotCalled

InitSpecRegion == RegionInputs /\ InitStream /\ BatchIdle

\* a caller resolves the descriptor
Resolve ==
  /\ roi_result = NotCalled
  /\ roi_result' = get_coordinates(roi, overflow_checks)
  /\ UNCHANGED << roi, overflow_checks >>
  /\ UNCHANGED << streamVars, batchVars >>

NextRegion == Resolve

SpecRegion == InitSpecRegion /\ [][NextRegion]_vars

InitSpecStream == RegionIdle /\ InitStream /\ BatchIdle

SpecStream == InitSpecStream /\ [][NextStream]_vars

InitSpecBatch == RegionIdle /\ InitStream /\ InitBatch

SpecBatch == InitSpecBatch /\ [][NextBatch]_vars

\* the worker in either of its two forms: the batch handler on a job while
\* the streamed worker was given none, or the streamed worker while the
\* batch handler has no job
InitSpecWorker == RegionIdle /\ InitStream /\ InitBatch

NextWorker ==
  \/ (jobs = 0 /\ NextBatch)
  \/ (BatchIdle /\ NextStream)

SpecWorker == InitSpecWorker /\ [][NextWorker]_vars

(***************************************************************************)
(* Properties of get_coordinates (SpecRegion)                              *)
(***************************************************************************)
\* the seven field sets the specification lists as valid
ValidFieldSets ==
  { {"top", "left", "right", "bottom"},
    {"top", "left", "width", "height"},
    {"top", "left", "bottom", "width"},
    {"top", "left", "right", "height"},
    {"left", "bottom", "width", "height"},
    {"top", "right", "width", "height"},
    {"right", "bottom", "width", "height"} }

Resolved == roi_result.kind # "NotCalled"

\* the rectangle the listed formulas give for roi, over the integers: a field
\* that is given is taken as it is, a missing one is the difference
ExpectedTop == IF IsSome(roi.top) THEN roi.top[1] ELSE roi.bottom[1] - roi.height[1]
ExpectedLeft == IF IsSome(roi.left) THEN roi.left[1] ELSE roi.right[1] - roi.width[1]
ExpectedWidth == IF IsSome(roi.width) THEN roi.width[1] ELSE roi.right[1] - roi.left[1]
ExpectedHeight == IF IsSome(roi.height) THEN roi.height[1] ELSE roi.bottom[1] - roi.top[1]

\* no formula of roi subtracts a larger value from a smaller one
NoNegativeDifference ==
  /\ ExpectedTop >= 0
  /\ ExpectedLeft >= 0
  /\ ExpectedWidth >= 0
  /\ ExpectedHeight >= 0

\* the descriptor of the rectangle c that gives exactly the fields of F
Describe(c, F) ==
  LET all == [top |-> c.top, left |-> c.left, right |-> c.left + c.width,
              bottom |-> c.top + c.height, width |-> c.width, height |-> c.height]
  IN [f \in Fields |-> IF f \in F THEN Some(all[f]) ELSE None]

\* C1: for a descriptor of one of the seven valid field sets whose formulas
\* subtract nothing larger from something smaller, get_coordinates returns Ok
\* with top, left, width, height as the listed formulas give them, and the
\* descriptors of that same rectangle in each of the seven field sets all
\* resolve to it.
C1_ValidSetsResolveByFormula ==
  (Resolved /\ Present(roi) \in ValidFieldSets /\ NoNegativeDifference) =>
     /\ roi_result = Ok(ExpectedTop, ExpectedLeft, ExpectedWidth, ExpectedHeight)
     /\ \A F \in ValidFieldSets :
          get_coordinates(Describe(roi_result, F), overflow_checks) = roi_result

\* the right/bottom/width/height descriptor of the rectangle at (1, 1) of
\* width 1 and height 1 has been resolved to it
C1_Witness ==
  /\ Present(roi) = {"right", "bottom", "width", "height"}
  /\ roi.right = Some(2) /\ roi.width = Some(1)
  /\ roi.bottom = Some(2) /\ roi.height = Some(1)
  /\ roi_result = Ok(1, 1, 1, 1)

\* C2: get_coordinates returns Err for every descriptor whose field set is
\* not one of the seven valid ones (fewer than four fields, more than four, or
\* another four), and returns Ok only for the seven valid field sets.
C2_OtherFieldSetsAreErrors ==
  Resolved =>
     /\ (Present(roi) \notin ValidFieldSets => roi_result.kind = "Err")
     /\ (roi_result.kind = "Ok" => Present(roi) \in ValidFieldSets)
     /\ (Cardinality(Present(roi)) # 4 => roi_result.kind = "Err")

\* top, right, bottom, height has been rejected
C2_Witness ==
  /\ Present(roi) = {"top", "right", "bottom", "height"}
  /\ roi_result.kind = "Err"

\* C3: for a descriptor of a valid field set one of whose subtractions would
\* be negative, get_coordinates returns an error value (neither a panic nor
\* an Ok with a wrapped difference).
C3_NegativeDifferenceIsError ==
  (Resolved /\ Present(roi) \in ValidFieldSets /\ ~NoNegativeDifference) =>
     roi_result.kind = "Err"

\* C10: every Ok of get_coordinates has a width and a height above zero.
C10_OkHasPositiveExtent ==
  roi_result.kind = "Ok" => (roi_result.width # 0 /\ roi_result.height # 0)

(***************************************************************************)
(* Properties of the streamed worker (SpecStream)                          *)
(***************************************************************************)
\* the frames of the current job that were handed to OCR
SentToOcr(i) == sampled[i].outcome \in {"ocr", "ocr_failed"}

\* C4: in every job the frame counter starts at 0 and grows by one per frame
\* presented, so the frame at position p of its job (from 0) has sequence
\* number p, and it is sent to OCR exactly when p modulo sample_rate is 0
\* (always when sample_rate is unspecified).
C4_CounterStartsAtZeroPerJob ==
  \A i \in 1..Len(sampled) :
     /\ sampled[i].n = sampled[i].position
     /\ sampled[i].outcome \in {"ocr", "ocr_failed", "skipped"} =>
          (SentToOcr(i) <=>
             (IsNone(sample_rate) \/ sampled[i].position % sample_rate[1] = 0))

\* C5: a sample_rate of 0 is rejected before any frame is processed, so no
\* frame callback evaluates frame_count modulo a sample rate of 0.
C5_NoRemainderByZero ==
  \A i \in 1..Len(sampled) : sampled[i].outcome # "rem_by_zero"

\* C13: every frame that was handed to OCR has a result on the callback's
\* result channel, the recognised text or an error: an OCR failure is
\* reported there.
C13_OcrFailureIsReported ==
  Cardinality({i \in 1..Len(sampled) : SentToOcr(i)})
    = Cardinality({k \in 1..Len(output) : output[k].kind \in {"json", "error"}})

\* C14: every kept frame has exactly one result, which carries its
\* presentation timestamp and the recognised text; every skipped frame has
\* one empty result; no frame has more than one result.
C14_OneResultPerFrame ==
  /\ \A i \in 1..Len(sampled) :
       SentToOcr(i) =>
         Cardinality({k \in 1..Len(output) :
                        output[k] = ProcessJson(sampled[i].position, "text")}) = 1
  /\ Cardinality({k \in 1..Len(output) : output[k].kind = "empty"})
       = Cardinality({i \in 1..Len(sampled) : sampled[i].outcome = "skipped"})
  /\ Cardinality({k \in 1..Len(output) : output[k].kind = "json"})
       <= Cardinality({i \in 1..Len(sampled) : SentToOcr(i)})

\* the job that init_process started has gone through ending_process
JobEnded == worker_pc = "idle" /\ init_returned.kind = "Ok"

Markers(out) == {i \in 1..Len(out) : out[i].kind = "end_of_process"}

\* C6: a job that ran init_process, process_frame any number of times and
\* ending_process has exactly one end-of-process marker on its channel, the
\* marker is the last message, after the result of every frame presented; and
\* before ending_process no marker is on the channel.
C6_OneFinalEndOfProcess ==
  /\ JobEnded =>
       /\ Markers(output) = {Len(output)}
       /\ Len(output) = presented + 1
  /\ worker_pc = "running" => Markers(output) = {}

\* a job of three frames, some recognised and some skipped, has ended
C6_Witness ==
  /\ JobEnded
  /\ presented = 3
  /\ \E i, j \in 1..Len(output) : output[i].kind = "json" /\ output[j].kind = "empty"

Stage(f, name) == {i \in 1..Len(f) : f[i].filter = name}

\* C8: the chain init_process returns ends with the rgb24 format conversion;
\* it has a crop stage exactly when a region was asked for, and then first; it
\* has a scale stage exactly when a width or a height was given, and then
\* right after the crop stage (first without one) and before the conversion.
C8_CropScaleFormatOrder ==
  init_returned.kind = "Ok" =>
    LET f == init_returned.video_filters
        p == parameters_given[1]
        crop == IF IsSome(p.region_of_interest) THEN 1 ELSE 0
        scale == IF IsSome(p.width) \/ IsSome(p.height) THEN 1 ELSE 0
    IN /\ Len(f) = crop + scale + 1
       /\ Stage(f, "Format") = {Len(f)}
       /\ f[Len(f)].pixel_formats = "rgb24"
       /\ Stage(f, "Crop") = (IF crop = 1 THEN {1} ELSE {})
       /\ Stage(f, "Resize") = (IF scale = 1 THEN {crop + 1} ELSE {})
       /\ crop = 1 => f[1].region = p.region_of_interest[1]
       /\ scale = 1 => f[crop + 1].scaling =
                          Some([width |-> p.width, height |-> p.height])

\* a job with a region and a width alone got crop, scale, format
C8_Witness ==
  /\ init_returned.kind = "Ok"
  /\ IsSome(parameters_given[1].region_of_interest)
  /\ IsSome(parameters_given[1].width) /\ IsNone(parameters_given[1].height)
  /\ Len(init_returned.video_filters) = 3

\* C9: the numbers the threads took from the counter are, after k calls in
\* all, exactly 0..k-1, each once: none is taken twice and none is skipped.
C9_SequenceNumbersDense ==
  /\ \A i \in 1..Len(sequence_numbers) : sequence_numbers[i] = i - 1
  /\ \A t, u \in Threads :
       (t # u /\ call[t].pc = "counted" /\ call[u].pc = "counted") =>
          call[t].frame_count # call[u].frame_count

\* two threads are inside process_frame at once, in the second job
C9_Witness ==
  /\ \A t \in Threads : call[t].pc = "counted"
  /\ jobs = 2
  /\ Len(sequence_numbers) >= 4

(***************************************************************************)
(* Properties of the batch handler (SpecBatch)                             *)
(***************************************************************************)
\* the least whole number that is n / r or more
CeilDiv(n, r) == (n + r - 1) \div r

\* C7: with no region and a sample rate r >= 1, after N frames came out of
\* the filter graph the report holds ceil(N / r) entries, each with the
\* full-frame rectangle (top 0, height frame_height, left 0, width
\* frame_width, in the report's field order), for the frames 0, r, 2r, ..
\* in strictly ascending order, the order of the OCR calls; the file of a
\* completed job holds that report.
C7_ReportOfSampledFrames ==
  (batch_pc \in {"decoding", "returned"} /\ IsNone(coordinates)
     /\ usize_sample_rate >= 1) =>
    /\ Len(text_analysis) = CeilDiv(loop_frame_count, usize_sample_rate)
    /\ \A i \in 1..Len(text_analysis) :
         /\ text_analysis[i].coordinates =
              << 0, video.frame_height, 0, video.frame_width >>
         /\ text_analysis[i].frame = (i - 1) * usize_sample_rate
         /\ text_analysis[i].frame = ocr_calls[i]
    /\ Len(ocr_calls) = Len(text_analysis)
    /\ \A i, j \in 1..Len(text_analysis) :
         i < j => text_analysis[i].frame < text_analysis[j].frame
    /\ job_result.status = "Completed" => destination = Some(text_analysis)

\* ten frames at sample rate 2 gave a written report of five entries
C7_Witness ==
  /\ job_result.status = "Completed"
  /\ loop_frame_count = 10
  /\ usize_sample_rate = 2
  /\ Len(text_analysis) = 5
  /\ destination = Some(text_analysis)

\* the required parameters of the batch handler
RequiredParameters == {"source_path", "language", "destination_path"}

MissingParameters == {q \in RequiredParameters : IsNone(job[q])}

\* C12: when a required parameter (source_path, language, destination_path)
\* is missing or not a string, process returns status Error with a message
\* naming a missing parameter, and it has not opened the source, built a
\* graph, read a packet, called OCR or written a file; when none is missing
\* no such error is returned.
C12_MissingParameterIsError ==
  batch_pc # "received" =>
    /\ MissingParameters # {} =>
         /\ batch_pc = "returned"
         /\ job_result.status = "Error"
         /\ job_result.message \in MissingParameters
         /\ graph = NoGraph
         /\ packets = 0 /\ loop_frame_count = 0
         /\ ocr_calls = << >> /\ text_analysis = << >>
         /\ destination = None
    /\ MissingParameters = {} => job_result.message \notin RequiredParameters

\* a job with a source and a destination but no language was refused
C12_Witness ==
  /\ IsSome(job.source_path) /\ IsNone(job.language) /\ IsSome(job.destination_path)
  /\ batch_pc = "returned"
  /\ job_result = JobResult("Error", "language")

\* C15: to_file is called at most once, and only when the decode loop has
\* ended; the job is Completed only if the file then holds the whole report;
\* when creating or writing the file failed, process returned status Error.
C15_ReportWrittenOnceAtEnd ==
  /\ to_file_calls <= 1
  /\ batch_pc # "returned" =>
       /\ to_file_calls = 0
       /\ destination = None
       /\ job_result.status # "Completed"
  /\ job_result.status = "Completed" =>
       /\ to_file_calls = 1
       /\ destination = Some(text_analysis)
  /\ (to_file_calls = 1 /\ job_result.message \in {"create", "write"}) =>
       job_result.status = "Error"

\* the destination could not be created for a report of two entries
C15_Witness ==
  /\ to_file_calls = 1
  /\ Len(text_analysis) = 2
  /\ destination = None
  /\ job_result = JobResult("Error", "create")

\* C18: once a packet failed to decode, apply_ocr has returned the error:
\* process ended with status Error, the entries collected before are in no
\* file, and to_file was not called.
C18_DecodeFailureIsFatal ==
  decode_failed =>
    /\ batch_pc = "returned"
    /\ job_result = JobResult("Error", "decode")
    /\ destination = None
    /\ to_file_calls = 0

\* a packet failed to decode after two entries had been collected
C18_Witness ==
  /\ decode_failed
  /\ Len(text_analysis) = 2
  /\ packets >= 3

\* the step of a packet on which graph.process was not Ok
FilterFailureStep == filter_failures' # filter_failures

\* C19: a frame that fails in the filter graph is dropped in silence: the
\* step reports no error, stays in the loop, adds no entry, calls no OCR and
\* leaves the frame counter alone; so the counter, and with it every frame
\* identifier of the report, counts the frames the graph handed back only.
C19_FilterFailureDropsFrameSilently ==
  /\ [](batch_pc \in {"decoding", "returned"} =>
          /\ loop_frame_count = graph_frames
          /\ \A i \in 1..Len(text_analysis) : text_analysis[i].frame < graph_frames)
  /\ [][FilterFailureStep =>
          /\ batch_pc' = "decoding"
          /\ job_result' = job_result
          /\ text_analysis' = text_analysis
          /\ ocr_calls' = ocr_calls
          /\ loop_frame_count' = loop_frame_count]_vars

\* a job in which two packets failed in the filter graph completed with a
\* report of the three frames the graph handed back
C19_Witness ==
  /\ filter_failures = 2
  /\ graph_frames = 3
  /\ usize_sample_rate = 1
  /\ Len(text_analysis) = 3
  /\ job_result.status = "Completed"

(***************************************************************************)
(* Properties of both forms of the worker (SpecWorker)                     *)
(***************************************************************************)
HasVideoStream(streams) == \E i \in 1..Len(streams) : streams[i] = "video"

\* apply_ocr was entered (the required parameters are there) on a source on
\* which a step of building the pipeline fails
ConstructionFailed ==
  /\ batch_pc # "received"
  /\ IsSome(job.source_path) /\ IsSome(job.language) /\ IsSome(job.destination_path)
  /\ video.construction # "ok"

\* C11: init_process returns an error and no stream descriptor exactly when
\* the source has no video stream, and then no frame is presented and no
\* result is produced; apply_ocr returns an error before its decode loop when
\* opening the source, creating the decoder or building the filter graph
\* fails, and then no packet is read, no frame is sent to OCR, no entry is
\* collected and no report is written.
C11_ConstructionFailureProcessesNoFrame ==
  /\ jobs > 0 =>
       /\ (init_returned.kind = "Err" <=> ~HasVideoStream(source_streams))
       /\ (init_returned.kind = "Ok" <=> HasVideoStream(source_streams))
  /\ init_returned.kind = "Err" =>
       /\ init_returned.video_filters = << >>
       /\ worker_pc = "idle"
       /\ presented = 0 /\ sampled = << >> /\ output = << >>
  /\ ConstructionFailed =>
       /\ batch_pc = "returned"
       /\ job_result = JobResult("Error", video.construction)
       /\ packets = 0 /\ loop_frame_count = 0
       /\ ocr_calls = << >> /\ text_analysis = << >>
       /\ destination = None

\* the second job of a worker was refused for a source with audio alone,
\* after a first job that processed frames
C11_Witness ==
  /\ jobs = 2
  /\ source_streams = << "audio" >>
  /\ init_returned.kind = "Err"
  /\ frame_count > 0

\* apply_ocr alone, called with a rectangle
InitSpecCrop == RegionIdle /\ InitStream /\ InitBatch

NextCrop ==
  \/ \E c \in CropCoordinates : apply_ocr_region(c)
  \/ loop_other_stream
  \/ \E decoded \in BOOLEAN, filtered \in BOOLEAN, k \in 0..MaxGraphFrames :
       loop_video_packet(decoded, filtered, k)
  \/ apply_ocr_return

SpecCrop == InitSpecCrop /\ [][NextCrop]_vars

(***************************************************************************)
(* Claim C16: the buffer handed to OCR                                     *)
(***************************************************************************)
\* the OCR calls made so far, of the stream worker and of the batch
\* processing
OcrCallsMade ==
  { c \in { ocr_view, loop_ocr_view } : c # NoOcrCall }

\* C16: whenever a frame has been handed to OCR, the byte view it was given
\* is row stride times height long (19200 bytes for a 192-byte stride and
\* 100 rows), the bytes per pixel are the bits per pixel of the frame's
\* format divided by 8 (3 for rgb24), and the width, height and row stride
\* given with the view are the frame's own
C16_BufferViewGeometry ==
  \A c \in OcrCallsMade :
     /\ c.view.data_len = c.frame.linesize * c.frame.height
     /\ (c.frame.linesize = 192 /\ c.frame.height = 100) => c.view.data_len = 19200
     /\ c.view.bytes_per_pixel * 8 = av_get_bits_per_pixel(c.frame.format)
     /\ c.frame.format = "rgb24" => c.view.bytes_per_pixel = 3
     /\ c.view.width = c.frame.width
     /\ c.view.height = c.frame.height
     /\ c.view.linesize = c.frame.linesize

\* a second job of the stream worker has handed a frame of 64 by 100 pixels
\* in rows padded to 256 bytes to OCR and got its text
C16_Witness ==
  /\ jobs = 2
  /\ ocr_view # NoOcrCall
  /\ ocr_view.frame = Frame(64, 100, 256, "rgb24")
  /\ ocr_view.view.data_len = 25600
  /\ \E i \in 1..Len(sampled) : sampled[i].outcome = "ocr"

(***************************************************************************)
(* Claim C17: the crop stage of apply_ocr                                  *)
(***************************************************************************)
\* the rectangle a tuple of coordinates stands for, read as its edges
\* (top, bottom, left, right), as the default (0, frame_height, 0,
\* frame_width) of the report is
RectangleOfEdges(c) ==
  [left |-> c[3], top |-> c[1], horizontal |-> c[4] - c[3], vertical |-> c[2] - c[1]]

\* the same tuple read as (top, height, left, width)
RectangleOfExtents(c) ==
  [left |-> c[3], top |-> c[1], horizontal |-> c[4], vertical |-> c[2]]

CropDescribes(crop, rectangle) ==
  /\ crop.parameters.x = rectangle.left
  /\ crop.parameters.y = rectangle.top
  /\ crop.parameters.out_w = rectangle.horizontal
  /\ crop.parameters.out_h = rectangle.vertical

\* C17: once apply_ocr, given crop coordinates, has built its graph, the
\* crop stage describes the rectangle of the coordinates (x and y its left
\* and top, out_w its horizontal extent, out_h its vertical extent), every
\* report entry carries the same coordinates, and the crop stage feeds the
\* format-conversion stage
C17_CropStageIsTheRectangle ==
  (IsSome(coordinates) /\ (batch_pc \in {"decoding", "panicked"}
                            \/ job_result.status = "Ok")) =>
    /\ IsSome(graph.crop)
    /\ \/ CropDescribes(graph.crop[1], RectangleOfEdges(coordinates[1]))
       \/ CropDescribes(graph.crop[1], RectangleOfExtents(coordinates[1]))
    /\ \A i \in 1..Len(text_analysis) :
         text_analysis[i].coordinates = coordinates[1]
    /\ \E i \in 1..Len(graph.links) :
         graph.links[i] = << "crop_filter", "format_filter" >>


====
